---- MODULE Spec2Model ----
(***************************************************************************)
(* Model of the warp-reader reading engine: the useReader hook (playback   *)
(* state machine and its timer effect), the tokenizer and the wake-lock    *)
(* utility.                                                                *)
(*                                                                         *)
(* Text is a sequence of character codes (UTF-16 code units), so that the  *)
(* tokenizer's character classes are the ranges the source writes.         *)
(*                                                                         *)
(* One action is one task of the JavaScript event loop together with the   *)
(* React commit it causes: the handler's state updates are batched, the    *)
(* component re-renders, and the playback effect's cleanup and body run    *)
(* when one of its dependencies changed.                                   *)
(***************************************************************************)
EXTENDS Integers, Sequences, FiniteSets, TLC

(***************************************************************************)
(* Bounds of the model.                                                    *)
(***************************************************************************)
\* number of words of the longest text that is loaded
MaxWords == 12
\* wake-lock requests in flight, and release callbacks in flight
MaxPending == 1
\* wake-lock sentinels that are held but no longer referenced
MaxLeaked == 1

(***************************************************************************)
(* Program constants.                                                      *)
(***************************************************************************)
MsPerMinute == 60000
DefaultWpm == 300
BackStep == 10

\* the value of a null reference: timeoutRef.current = null, raw = null
NoTimer == 0
Null == << -1 >>

(***************************************************************************)
(* Tokenizer (src/src/utils/tokenizer.js)                                  *)
(***************************************************************************)
\* /[\x00-\x1F\x7F-\x9F]/
IsControl(c) == (c >= 0 /\ c <= 31) \/ (c >= 127 /\ c <= 159)

\* \s of a JavaScript regular expression, which is also what trim() removes
IsSpace(c) ==
    \/ c \in {9, 10, 11, 12, 13, 32, 160, 5760, 8232, 8233, 8239, 8287, 12288, 65279}
    \/ (c >= 8192 /\ c <= 8202)

\* the replacement as it would be without the g flag: only the first
\* control character is removed
RECURSIVE RemoveFirstControl(_)
RemoveFirstControl(s) ==
    IF s = <<>> THEN <<>>
    ELSE IF IsControl(Head(s)) THEN Tail(s)
    ELSE << Head(s) >> \o RemoveFirstControl(Tail(s))

\* raw.replace(/[\x00-\x1F\x7F-\x9F]/g, '')
RemoveControl(s) == SelectSeq(s, LAMBDA c : ~IsControl(c))

RECURSIVE TrimStart(_)
TrimStart(s) ==
    IF s # <<>> /\ IsSpace(Head(s)) THEN TrimStart(Tail(s)) ELSE s

RECURSIVE TrimEnd(_)
TrimEnd(s) ==
    IF s # <<>> /\ IsSpace(s[Len(s)]) THEN TrimEnd(SubSeq(s, 1, Len(s) - 1)) ELSE s

\* String.prototype.trim
Trim(s) == TrimEnd(TrimStart(s))

\* s.split(/\s+/): the pieces between the maximal runs of whitespace; the
\* empty string gives one empty piece, a leading or trailing run gives an
\* empty first or last piece.
RECURSIVE SplitFrom(_, _, _)
SplitFrom(s, i, cur) ==
    IF i > Len(s) THEN << cur >>
    ELSE IF IsSpace(s[i])
         THEN IF i > 1 /\ IsSpace(s[i - 1])
              THEN SplitFrom(s, i + 1, cur)
              ELSE << cur >> \o SplitFrom(s, i + 1, <<>>)
         ELSE SplitFrom(s, i + 1, Append(cur, s[i]))

SplitWhitespace(s) == SplitFrom(s, 1, <<>>)

\* the tokenizer as it would be without the trim and the filter of empty
\* pieces
cleanAndTokenizeNoFilter(raw) ==
    IF raw = Null \/ raw = <<>> THEN <<>>
    ELSE SplitWhitespace(RemoveControl(raw))

\* the tokenizer as it would be without step 1, the removal of the control
\* characters
cleanAndTokenizeNoClean(raw) ==
    IF raw = Null \/ raw = <<>> THEN <<>>
    ELSE SelectSeq(SplitWhitespace(Trim(raw)), LAMBDA t : Len(t) > 0)

cleanAndTokenize(raw) ==
    IF raw = Null \/ raw = <<>> THEN <<>>
    ELSE LET text == RemoveControl(raw)
             tokens == SplitWhitespace(Trim(text))
         IN SelectSeq(tokens, LAMBDA t : Len(t) > 0)

\* 60000 / wpm; the rates of the model divide 60000, so the quotient is exact
calculateInterval(w) == MsPerMinute \div w

(***************************************************************************)
(* Data of the hook (src/src/hooks/useReader.js)                           *)
(***************************************************************************)
\* ['welcome', 'to', 'warp.', 'velocity', 'reading', 'system.', 'ready?']
DEFAULT_WORDS ==
    << <<119, 101, 108, 99, 111, 109, 101>>,
       <<116, 111>>,
       <<119, 97, 114, 112, 46>>,
       <<118, 101, 108, 111, 99, 105, 116, 121>>,
       <<114, 101, 97, 100, 105, 110, 103>>,
       <<115, 121, 115, 116, 101, 109, 46>>,
       <<114, 101, 97, 100, 121, 63>> >>

\* ['ready', 'to', 'warp']
FALLBACK_WORDS ==
    << <<114, 101, 97, 100, 121>>, <<116, 111>>, <<119, 97, 114, 112>> >>

(***************************************************************************)
(* Inputs                                                                  *)
(***************************************************************************)
\* n times the word "a", separated by single spaces
RECURSIVE WordsText(_)
WordsText(n) ==
    IF n <= 1 THEN <<97>> ELSE <<97, 32>> \o WordsText(n - 1)

\* "  hello   world  "
HelloWorld ==
    <<32, 32, 104, 101, 108, 108, 111, 32, 32, 32, 119, 111, 114, 108, 100, 32, 32>>

Texts ==
    { Null,                   \* absent value
      <<>>,                   \* ""
      <<32, 160, 32>>,        \* whitespace only
      <<1, 9, 10, 127>>,      \* control characters only
      <<97>>,                 \* "a"
      <<97, 9, 98>>,          \* "a\tb"
      HelloWorld,
      WordsText(MaxWords) }

\* rates of the slider (100..1000, step 50) that divide 60000
Rates == {300, 600}


(***************************************************************************)
(* State                                                                   *)
(***************************************************************************)
VARIABLES
    words,          \* useState(DEFAULT_WORDS)
    currentIndex,   \* useState(0)
    isPlaying,      \* useState(false)
    isReady,        \* useState(false)
    isFinished,     \* useState(false)
    wpm,            \* useState(300)
    timeoutRef,     \* useRef(null): NoTimer or the id of a timer
    timers,         \* the browser's armed timers: [id, delay, len], where
                    \* len is words.length in the closure of runLoop
    hasCleanup,     \* the last run of the playback effect returned a cleanup
    wakeLock,       \* module variable of wakeLock.js: "null", or the state
                    \* of the sentinel it references: "active", "released"
    leaked,         \* sentinels still held that wakeLock no longer references
    pendingReq,     \* navigator.wakeLock.request() promises not yet settled
    pendingRel,     \* wakeLock.release() promises not yet settled
    supported,      \* 'wakeLock' in navigator
    textContent,    \* App: useState('') of the text area
    fileName,       \* useState(''): the name shown for the loaded file
    extracting,     \* App: the files whose processFile promise is pending
    hasFailed,      \* history: an extraction failed at some point
    selected,       \* history: the name of the file selected last
    last,           \* history: the last operation and the state it ran in
    run,            \* history: the position play() started from and the
                    \* ticks since, start = -1 when another operation ran
    raw,            \* tokenizer: the argument of cleanAndTokenize
    tokens,         \* tokenizer: its result for raw
    retokens,       \* tokenizer: its result for tokens.join(' ')
    word,           \* display: the word prop of RSVPDisplay
    pivotIdx,       \* display: getPivotIndex(word)
    parts           \* display: the left, pivot and right sections rendered

reader == <<words, currentIndex, isPlaying, isReady, isFinished, wpm>>
timing == <<timeoutRef, timers, hasCleanup>>
lock == <<wakeLock, leaked, pendingReq, pendingRel, supported>>
app == <<textContent, fileName, extracting, hasFailed, selected>>
pure == <<raw, tokens, retokens, word, pivotIdx, parts>>
vars == <<reader, timing, lock, app, last, run, pure>>

Max(a, b) == IF a >= b THEN a ELSE b
Min(a, b) == IF a <= b THEN a ELSE b

NoRun == [start |-> -1, ticks |-> 0]

\* the values of tokens and retokens, of pivotIdx and of parts before the
\* function they hold the result of has run
NoTokens == << << -1 >> >>
NoIndex == -1
NoParts == [left |-> << -1 >>, pivot |-> << -1 >>, right |-> << -1 >>]

\* the tokenizer and the display have not been given an input
PureUnused ==
    /\ raw = <<>>
    /\ tokens = NoTokens
    /\ retokens = NoTokens
    /\ word = <<>>
    /\ pivotIdx = NoIndex
    /\ parts = NoParts

\* the record of an operation: its name, its argument (a text, or <<w>> for
\* a rate w), and the
\* position, flags and lock it found
Op(name, text) ==
    [op |-> name, text |-> text, pos |-> currentIndex, playing |-> isPlaying,
     finished |-> isFinished, ready |-> isReady, lock |-> wakeLock,
     armed |-> Cardinality(timers)]

\* the session after the first render of App
InitSession ==
    /\ words = DEFAULT_WORDS
    /\ currentIndex = 0
    /\ isPlaying = FALSE
    /\ isReady = FALSE
    /\ isFinished = FALSE
    /\ wpm = DefaultWpm
    /\ timeoutRef = NoTimer
    /\ timers = {}
    /\ hasCleanup = FALSE
    /\ wakeLock = "null"
    /\ leaked = 0
    /\ pendingReq = 0
    /\ pendingRel = 0
    /\ supported \in BOOLEAN
    /\ textContent = <<>>
    /\ fileName = <<>>
    /\ extracting = {}
    /\ hasFailed = FALSE
    /\ selected = <<>>
    /\ last = [op |-> "init", text |-> <<>>, pos |-> 0, playing |-> FALSE,
               finished |-> FALSE, ready |-> FALSE, lock |-> "null", armed |-> 0]
    /\ run = NoRun

Init ==
    /\ InitSession
    /\ PureUnused

(***************************************************************************)
(* Timers and the playback effect (useReader.js 154-180)                   *)
(***************************************************************************)
\* clearTimeout(id): the timer with that id, if still armed, never fires
clearTimeout(ts, id) == {t \in ts : t.id # id}

\* setTimeout returns an id no live timer and no reference holds
FreshId(ts, ref) ==
    CHOOSE i \in 1..(Cardinality(ts) + 2) : i # ref /\ \A t \in ts : t.id # i

\* the effect as it would be without the cleanup it returns
PlaybackEffectNoCleanup(ref, ts) ==
    IF <<isPlaying, currentIndex, wpm, Len(words)>>
         = <<isPlaying', currentIndex', wpm', Len(words')>>
    THEN /\ timeoutRef' = ref
         /\ timers' = ts
         /\ hasCleanup' = hasCleanup
    ELSE IF ~isPlaying'
         THEN /\ timeoutRef' = ref
              /\ timers' = ts
              /\ hasCleanup' = FALSE
         ELSE LET id == FreshId(ts, ref)
              IN /\ timers' = ts \cup
                      {[id |-> id, delay |-> calculateInterval(wpm'),
                        len |-> Len(words')]}
                 /\ timeoutRef' = id
                 /\ hasCleanup' = FALSE

\* the effect as it would be with currentIndex missing from its dependencies
PlaybackEffectNoIndexDep(ref, ts) ==
    IF <<isPlaying, wpm, Len(words)>> = <<isPlaying', wpm', Len(words')>>
    THEN /\ timeoutRef' = ref
         /\ timers' = ts
         /\ hasCleanup' = hasCleanup
    ELSE LET cleaned == IF hasCleanup /\ ref # NoTimer
                        THEN clearTimeout(ts, ref) ELSE ts
         IN IF ~isPlaying'
            THEN /\ timeoutRef' = ref
                 /\ timers' = cleaned
                 /\ hasCleanup' = FALSE
            ELSE LET id == FreshId(cleaned, ref)
                 IN /\ timers' = cleaned \cup
                         {[id |-> id, delay |-> calculateInterval(wpm'),
                           len |-> Len(words')]}
                    /\ timeoutRef' = id
                    /\ hasCleanup' = TRUE

\* the effect as it would be without its early return when not playing
PlaybackEffectAlwaysArms(ref, ts) ==
    IF <<isPlaying, currentIndex, wpm, Len(words)>>
         = <<isPlaying', currentIndex', wpm', Len(words')>>
    THEN /\ timeoutRef' = ref
         /\ timers' = ts
         /\ hasCleanup' = hasCleanup
    ELSE LET cleaned == IF hasCleanup /\ ref # NoTimer
                        THEN clearTimeout(ts, ref) ELSE ts
             id == FreshId(cleaned, ref)
         IN /\ timers' = cleaned \cup
                 {[id |-> id, delay |-> calculateInterval(wpm'),
                   len |-> Len(words')]}
            /\ timeoutRef' = id
            /\ hasCleanup' = TRUE

\* the effect as it would be with wpm missing from its dependencies
PlaybackEffectNoWpmDep(ref, ts) ==
    IF <<isPlaying, currentIndex, Len(words)>>
         = <<isPlaying', currentIndex', Len(words')>>
    THEN /\ timeoutRef' = ref
         /\ timers' = ts
         /\ hasCleanup' = hasCleanup
    ELSE LET cleaned == IF hasCleanup /\ ref # NoTimer
                        THEN clearTimeout(ts, ref) ELSE ts
         IN IF ~isPlaying'
            THEN /\ timeoutRef' = ref
                 /\ timers' = cleaned
                 /\ hasCleanup' = FALSE
            ELSE LET id == FreshId(cleaned, ref)
                 IN /\ timers' = cleaned \cup
                         {[id |-> id, delay |-> calculateInterval(wpm'),
                           len |-> Len(words')]}
                    /\ timeoutRef' = id
                    /\ hasCleanup' = TRUE

\* The commit after a handler that left the reference at ref and the armed
\* timers at ts.  The effect runs when one of its dependencies
\* [isPlaying, currentIndex, wpm, words.length] changed: first the cleanup
\* the previous run returned, then the body, which arms a timer only while
\* playing.
PlaybackEffect(ref, ts) ==
    IF <<isPlaying, currentIndex, wpm, Len(words)>>
         = <<isPlaying', currentIndex', wpm', Len(words')>>
    THEN /\ timeoutRef' = ref
         /\ timers' = ts
         /\ hasCleanup' = hasCleanup
    ELSE LET cleaned == IF hasCleanup /\ ref # NoTimer
                        THEN clearTimeout(ts, ref) ELSE ts
         IN IF ~isPlaying'
            THEN /\ timeoutRef' = ref
                 /\ timers' = cleaned
                 /\ hasCleanup' = FALSE
            ELSE LET id == FreshId(cleaned, ref)
                 IN /\ timers' = cleaned \cup
                         {[id |-> id, delay |-> calculateInterval(wpm'),
                           len |-> Len(words')]}
                    /\ timeoutRef' = id
                    /\ hasCleanup' = TRUE

(***************************************************************************)
(* Wake lock (wakeLock.js, second half of src/src/utils/tokenizer.js)      *)
(***************************************************************************)
\* requestWakeLock up to its await: the request is in flight when the API
\* is supported
requestWakeLock ==
    /\ pendingReq' = IF supported THEN pendingReq + 1 ELSE pendingReq
    /\ UNCHANGED <<wakeLock, leaked, pendingRel, supported>>

CanRequest == supported => pendingReq < MaxPending

\* releaseWakeLock: release() on the referenced sentinel, whose promise
\* settles later
releaseWakeLock ==
    /\ IF wakeLock # "null"
       THEN wakeLock' = "released" /\ pendingRel' = pendingRel + 1
       ELSE UNCHANGED <<wakeLock, pendingRel>>
    /\ UNCHANGED <<leaked, pendingReq, supported>>

CanRelease == wakeLock # "null" => pendingRel < MaxPending

(***************************************************************************)
(* Transitions of the hook                                                 *)
(***************************************************************************)
\* play as it would be without the replay-from-start branch
playNoReset ==
    /\ UNCHANGED <<currentIndex, isFinished>>
    /\ isPlaying' = TRUE
    /\ requestWakeLock
    /\ PlaybackEffect(timeoutRef, timers)

\* play, called with the words and wpm of the next state already given
play ==
    /\ IF currentIndex >= Len(words) - 1
       THEN currentIndex' = 0 /\ isFinished' = FALSE
       ELSE UNCHANGED <<currentIndex, isFinished>>
    /\ isPlaying' = TRUE
    /\ requestWakeLock
    /\ PlaybackEffect(timeoutRef, timers)

\* pause as it would be if it dropped the reference without clearTimeout
pauseNoClear ==
    /\ isPlaying' = FALSE
    /\ releaseWakeLock
    /\ PlaybackEffect(NoTimer, timers)

\* pause, called with every other reader variable of the next state given
pause ==
    /\ isPlaying' = FALSE
    /\ releaseWakeLock
    /\ PlaybackEffect(NoTimer,
                      IF timeoutRef # NoTimer
                      THEN clearTimeout(timers, timeoutRef) ELSE timers)

Play ==
    /\ CanRequest
    /\ UNCHANGED <<words, isReady, wpm>>
    /\ play
    /\ last' = Op("play", <<>>)
    /\ UNCHANGED pure
    /\ UNCHANGED app
    /\ run' = [start |-> currentIndex', ticks |-> 0]

\* pause as it would be if it marked the session as loaded and paused
PauseMarksReady ==
    /\ CanRelease
    /\ isReady' = TRUE
    /\ UNCHANGED <<words, currentIndex, isFinished, wpm>>
    /\ pause
    /\ last' = Op("pause", <<>>)
    /\ UNCHANGED pure
    /\ UNCHANGED app
    /\ run' = NoRun

Pause ==
    /\ CanRelease
    /\ UNCHANGED <<words, currentIndex, isReady, isFinished, wpm>>
    /\ pause
    /\ last' = Op("pause", <<>>)
    /\ UNCHANGED pure
    /\ UNCHANGED app
    /\ run' = NoRun

togglePlayPause ==
    IF isPlaying
    THEN /\ CanRelease
         /\ UNCHANGED <<words, currentIndex, isReady, isFinished, wpm>>
         /\ pause
         /\ run' = NoRun
    ELSE /\ CanRequest
         /\ UNCHANGED <<words, isReady, wpm>>
         /\ play
         /\ run' = [start |-> currentIndex', ticks |-> 0]

Toggle ==
    /\ togglePlayPause
    /\ last' = Op("toggle", <<>>)
    /\ UNCHANGED pure
    /\ UNCHANGED app

\* restart as it would be without its call of pause
restartNoPause ==
    /\ currentIndex' = 0
    /\ isFinished' = FALSE
    /\ UNCHANGED <<words, isReady, wpm, isPlaying>>
    /\ UNCHANGED lock
    /\ PlaybackEffect(timeoutRef, timers)

\* restart as it would be if it also put the placeholder sequence back
restartToPlaceholder ==
    /\ words' = DEFAULT_WORDS
    /\ currentIndex' = 0
    /\ isFinished' = FALSE
    /\ UNCHANGED <<isReady, wpm>>
    /\ pause

restart ==
    /\ currentIndex' = 0
    /\ isFinished' = FALSE
    /\ UNCHANGED <<words, isReady, wpm>>
    /\ pause

Restart ==
    /\ CanRelease
    /\ restart
    /\ last' = Op("restart", <<>>)
    /\ UNCHANGED pure
    /\ UNCHANGED app
    /\ run' = NoRun

\* back10 as it would be without Math.max
back10NoClamp ==
    /\ currentIndex' = currentIndex - BackStep
    /\ isFinished' = FALSE
    /\ UNCHANGED <<words, isReady, wpm>>
    /\ pause

\* back10 as it would be without setIsFinished(false)
back10KeepFinished ==
    /\ currentIndex' = Max(0, currentIndex - BackStep)
    /\ UNCHANGED isFinished
    /\ UNCHANGED <<words, isReady, wpm>>
    /\ pause

back10 ==
    /\ currentIndex' = Max(0, currentIndex - BackStep)
    /\ isFinished' = FALSE
    /\ UNCHANGED <<words, isReady, wpm>>
    /\ pause

Back10 ==
    /\ CanRelease
    /\ back10
    /\ last' = Op("back10", <<>>)
    /\ UNCHANGED pure
    /\ UNCHANGED app
    /\ run' = NoRun

\* loadText as it would be without setCurrentIndex(0)
loadTextKeepIndex(text) ==
    /\ LET tokenized == cleanAndTokenize(text)
       IN words' = IF Len(tokenized) = 0 THEN FALLBACK_WORDS ELSE tokenized
    /\ UNCHANGED currentIndex
    /\ isFinished' = FALSE
    /\ isReady' = TRUE
    /\ UNCHANGED wpm
    /\ pause

\* loadText as it would be without the fallback sequence
loadTextNoFallback(text) ==
    /\ words' = cleanAndTokenize(text)
    /\ currentIndex' = 0
    /\ isFinished' = FALSE
    /\ isReady' = TRUE
    /\ UNCHANGED wpm
    /\ pause

\* loadText as it would be without its call of pause
loadTextNoPause(text) ==
    /\ LET tokenized == cleanAndTokenize(text)
       IN words' = IF Len(tokenized) = 0 THEN FALLBACK_WORDS ELSE tokenized
    /\ currentIndex' = 0
    /\ isFinished' = FALSE
    /\ isReady' = TRUE
    /\ UNCHANGED <<wpm, isPlaying>>
    /\ UNCHANGED lock
    /\ PlaybackEffect(timeoutRef, timers)

loadText(text) ==
    /\ LET tokenized == cleanAndTokenize(text)
       IN words' = IF Len(tokenized) = 0 THEN FALLBACK_WORDS ELSE tokenized
    /\ currentIndex' = 0
    /\ isFinished' = FALSE
    /\ isReady' = TRUE
    /\ UNCHANGED wpm
    /\ pause

LoadText ==
    \E text \in Texts :
        /\ CanRelease
        /\ loadText(text)
        /\ last' = Op("load", text)
        /\ UNCHANGED pure
        /\ UNCHANGED app
        /\ run' = NoRun

\* clearText as it would be without setFileName('')
clearTextKeepsFile ==
    /\ words' = DEFAULT_WORDS
    /\ currentIndex' = 0
    /\ isReady' = FALSE
    /\ isFinished' = FALSE
    /\ UNCHANGED fileName
    /\ UNCHANGED wpm
    /\ pause

\* clearText as it would be if it left the loaded words in place
clearTextKeepsWords ==
    /\ currentIndex' = 0
    /\ isReady' = FALSE
    /\ isFinished' = FALSE
    /\ fileName' = <<>>
    /\ UNCHANGED <<words, wpm>>
    /\ pause

clearText ==
    /\ words' = DEFAULT_WORDS
    /\ currentIndex' = 0
    /\ isReady' = FALSE
    /\ isFinished' = FALSE
    /\ fileName' = <<>>
    /\ UNCHANGED wpm
    /\ pause

ClearText ==
    /\ CanRelease
    /\ clearText
    /\ last' = Op("clear", fileName)
    /\ UNCHANGED pure
    /\ UNCHANGED <<textContent, extracting, hasFailed, selected>>
    /\ run' = NoRun

\* markTextModified as it would be if an edit also stopped playback
markTextModifiedStops ==
    /\ isReady' = FALSE
    /\ UNCHANGED <<words, currentIndex, isFinished, wpm>>
    /\ pause

markTextModified ==
    /\ isReady' = FALSE
    /\ UNCHANGED <<words, currentIndex, isPlaying, isFinished, wpm>>
    /\ UNCHANGED lock
    /\ PlaybackEffect(timeoutRef, timers)

MarkTextModified ==
    /\ markTextModified
    /\ last' = Op("edit", <<>>)
    /\ UNCHANGED pure
    /\ UNCHANGED app
    /\ run' = NoRun

setWpm(w) ==
    /\ wpm' = w
    /\ UNCHANGED <<words, currentIndex, isPlaying, isReady, isFinished>>
    /\ UNCHANGED lock
    /\ PlaybackEffect(timeoutRef, timers)

SetWpm ==
    \E w \in Rates :
        /\ setWpm(w)
        /\ last' = Op("setWpm", <<w>>)
        /\ UNCHANGED pure
        /\ UNCHANGED app
        /\ run' = NoRun

\* runLoop as it would be with nextIndex > words.length as its end test
runLoopOffByOne(t) ==
    LET nextIndex == currentIndex + 1
    IN /\ IF nextIndex > t.len
          THEN /\ CanRelease
               /\ isPlaying' = FALSE
               /\ isFinished' = TRUE
               /\ releaseWakeLock
               /\ currentIndex' = t.len - 1
          ELSE /\ currentIndex' = nextIndex
               /\ UNCHANGED <<isPlaying, isFinished>>
               /\ UNCHANGED lock
       /\ UNCHANGED <<words, isReady, wpm>>
       /\ PlaybackEffect(timeoutRef, timers \ {t})

\* runLoop as it would be if the end of the sequence wrapped to the start
runLoopWrap(t) ==
    LET nextIndex == currentIndex + 1
    IN /\ currentIndex' = IF nextIndex >= t.len THEN 0 ELSE nextIndex
       /\ UNCHANGED <<isPlaying, isFinished>>
       /\ UNCHANGED lock
       /\ UNCHANGED <<words, isReady, wpm>>
       /\ PlaybackEffect(timeoutRef, timers \ {t})

\* runLoop as it would be if the tick at the end set Finished without
\* clearing Playing
runLoopKeepsPlaying(t) ==
    LET nextIndex == currentIndex + 1
    IN /\ IF nextIndex >= t.len
          THEN /\ CanRelease
               /\ isFinished' = TRUE
               /\ releaseWakeLock
               /\ currentIndex' = t.len - 1
               /\ UNCHANGED isPlaying
          ELSE /\ currentIndex' = nextIndex
               /\ UNCHANGED <<isPlaying, isFinished>>
               /\ UNCHANGED lock
       /\ UNCHANGED <<words, isReady, wpm>>
       /\ PlaybackEffect(timeoutRef, timers \ {t})

\* The timer t fires: runLoop with the words.length of its closure.  The
\* timer leaves the armed timers; timeoutRef keeps its id.
runLoop(t) ==
    LET nextIndex == currentIndex + 1
    IN /\ IF nextIndex >= t.len
          THEN /\ CanRelease
               /\ isPlaying' = FALSE
               /\ isFinished' = TRUE
               /\ releaseWakeLock
               /\ currentIndex' = t.len - 1
          ELSE /\ currentIndex' = nextIndex
               /\ UNCHANGED <<isPlaying, isFinished>>
               /\ UNCHANGED lock
       /\ UNCHANGED <<words, isReady, wpm>>
       /\ PlaybackEffect(timeoutRef, timers \ {t})

Tick ==
    \E t \in timers :
        /\ runLoop(t)
        /\ last' = Op("tick", <<>>)
        /\ UNCHANGED pure
        /\ UNCHANGED app
        /\ run' = IF run.start >= 0
                  THEN [run EXCEPT !.ticks = @ + 1] ELSE run

(***************************************************************************)
(* Settling of the wake-lock promises                                      *)
(***************************************************************************)
\* navigator.wakeLock.request resolves: wakeLock = the new sentinel.  A
\* sentinel that was referenced and active stays held, unreferenced.
RequestGranted ==
    /\ pendingReq > 0
    /\ wakeLock = "active" => leaked < MaxLeaked
    /\ pendingReq' = pendingReq - 1
    /\ wakeLock' = "active"
    /\ leaked' = IF wakeLock = "active" THEN leaked + 1 ELSE leaked
    /\ UNCHANGED <<pendingRel, supported>>
    /\ UNCHANGED <<reader, timing, run>>
    /\ last' = Op("granted", <<>>)
    /\ UNCHANGED pure
    /\ UNCHANGED app

\* the rejection as it would be if it reached play() and stopped playback
RequestRejectedStops ==
    /\ pendingReq > 0
    /\ pendingReq' = pendingReq - 1
    /\ UNCHANGED <<wakeLock, leaked, pendingRel, supported>>
    /\ UNCHANGED <<words, currentIndex, isReady, isFinished, wpm, run>>
    /\ isPlaying' = FALSE
    /\ PlaybackEffect(NoTimer,
                      IF timeoutRef # NoTimer
                      THEN clearTimeout(timers, timeoutRef) ELSE timers)
    /\ last' = Op("rejected", <<>>)
    /\ UNCHANGED pure
    /\ UNCHANGED app

\* the request rejects: the catch logs and returns false
RequestRejected ==
    /\ pendingReq > 0
    /\ pendingReq' = pendingReq - 1
    /\ UNCHANGED <<wakeLock, leaked, pendingRel, supported>>
    /\ UNCHANGED <<reader, timing, run>>
    /\ last' = Op("rejected", <<>>)
    /\ UNCHANGED pure
    /\ UNCHANGED app

\* release() resolves: wakeLock = null, whatever it references by now
ReleaseResolved ==
    /\ pendingRel > 0
    /\ wakeLock = "active" => leaked < MaxLeaked
    /\ pendingRel' = pendingRel - 1
    /\ wakeLock' = "null"
    /\ leaked' = IF wakeLock = "active" THEN leaked + 1 ELSE leaked
    /\ UNCHANGED <<pendingReq, supported>>
    /\ UNCHANGED <<reader, timing, run>>
    /\ last' = Op("released", <<>>)
    /\ UNCHANGED pure
    /\ UNCHANGED app

\* release() rejects: the catch logs, wakeLock keeps its reference
ReleaseRejected ==
    /\ pendingRel > 0
    /\ pendingRel' = pendingRel - 1
    /\ UNCHANGED <<wakeLock, leaked, pendingReq, supported>>
    /\ UNCHANGED <<reader, timing, run>>
    /\ last' = Op("releaseFailed", <<>>)
    /\ UNCHANGED pure
    /\ UNCHANGED app

Next ==
    \/ Play
    \/ Pause
    \/ Toggle
    \/ Restart
    \/ Back10
    \/ LoadText
    \/ ClearText
    \/ MarkTextModified
    \/ SetWpm
    \/ Tick
    \/ RequestGranted
    \/ RequestRejected
    \/ ReleaseResolved
    \/ ReleaseRejected

Spec == Init /\ [][Next]_vars


(***************************************************************************)
(* The application component (App, src/unnamed/part_001) around the hook:  *)
(* the text area, the file selection and the asynchronous text extraction  *)
(* of processFile (src/unnamed/part_002), whose outcome for a file is      *)
(* either its text or an error.                                            *)
(***************************************************************************)
\* "A.TXT" holding "  hello   world  ", and "b.pdf" holding "b a c"
Files ==
    { [name |-> <<65, 46, 84, 88, 84>>, text |-> HelloWorld],
      [name |-> <<98, 46, 112, 100, 102>>, text |-> <<98, 32, 97, 32, 99>>] }

\* what is typed or pasted into the text area
EditTexts == { <<>>, <<32, 9>>, <<99, 32, 98>> }

\* String.prototype.toLowerCase on the ASCII letters
toLowerCase(name) ==
    [i \in 1..Len(name) |->
        IF name[i] >= 65 /\ name[i] <= 90 THEN name[i] + 32 ELSE name[i]]

\* setLoadedFileName
setLoadedFileName(name) == fileName' = toLowerCase(name)

\* handleTextChange: setTextContent(text); markTextModified()
HandleTextChange ==
    \E text \in EditTexts :
        /\ textContent' = text
        /\ markTextModified
        /\ UNCHANGED <<fileName, extracting, hasFailed, selected>>
        /\ last' = Op("edit", text)
        /\ UNCHANGED pure
        /\ run' = NoRun

\* handleLoadText, called by the text input with the content of the text area
HandleLoadText ==
    /\ CanRelease
    /\ loadText(textContent)
    /\ UNCHANGED app
    /\ last' = Op("load", textContent)
    /\ UNCHANGED pure
    /\ run' = NoRun

\* handleFileSelect up to its await: processFile(file) is pending
HandleFileSelect ==
    \E file \in Files :
        /\ file \notin extracting
        /\ extracting' = extracting \cup {file}
        /\ selected' = file.name
        /\ UNCHANGED <<textContent, fileName, hasFailed>>
        /\ UNCHANGED <<reader, timing, lock, run>>
        /\ last' = Op("select", file.name)
        /\ UNCHANGED pure

\* processFile resolved: setTextContent(text); setLoadedFileName(file.name);
\* loadText(text)
FileExtracted ==
    \E file \in extracting :
        /\ CanRelease
        /\ extracting' = extracting \ {file}
        /\ textContent' = file.text
        /\ setLoadedFileName(file.name)
        /\ loadText(file.text)
        /\ UNCHANGED <<hasFailed, selected>>
        /\ last' = Op("fileLoaded", file.text)
        /\ UNCHANGED pure
        /\ run' = NoRun

\* the failure path as it would be if the catch also emptied the session
FileFailedResets ==
    \E file \in extracting :
        /\ CanRelease
        /\ extracting' = extracting \ {file}
        /\ hasFailed' = TRUE
        /\ textContent' = <<>>
        /\ clearText
        /\ UNCHANGED selected
        /\ last' = Op("fileFailed", file.name)
        /\ UNCHANGED pure
        /\ run' = NoRun

\* processFile rejected: the catch of handleFileSelect logs the error
FileFailed ==
    \E file \in extracting :
        /\ extracting' = extracting \ {file}
        /\ hasFailed' = TRUE
        /\ UNCHANGED <<textContent, fileName, selected>>
        /\ UNCHANGED <<reader, timing, lock, run>>
        /\ last' = Op("fileFailed", file.name)
        /\ UNCHANGED pure

\* handleClear: setTextContent(''); clearText().  The button that calls it
\* is rendered only while a file name is shown.
HandleClear ==
    /\ fileName # <<>>
    /\ CanRelease
    /\ textContent' = <<>>
    /\ clearText
    /\ UNCHANGED <<extracting, hasFailed, selected>>
    /\ last' = Op("clear", fileName)
    /\ UNCHANGED pure
    /\ run' = NoRun

\* the application in a browser without the Wake Lock API, where the
\* wake-lock utility does nothing
InitApp ==
    /\ Init
    /\ ~supported

NextApp ==
    \/ HandleTextChange
    \/ HandleLoadText
    \/ HandleFileSelect
    \/ FileExtracted
    \/ FileFailed
    \/ HandleClear
    \/ ClearText
    \/ Toggle
    \/ Restart
    \/ Back10
    \/ SetWpm
    \/ Tick

SpecApp == InitApp /\ [][NextApp]_vars

(***************************************************************************)
(* A run of playback left alone: a loaded, paused session at any position, *)
(* then play() once, then only the timer and the wake-lock promises.       *)
(* Timers that are armed fire, which is the fairness on Tick.              *)
(***************************************************************************)
Loaded(text) ==
    LET tokenized == cleanAndTokenize(text)
    IN IF Len(tokenized) = 0 THEN FALLBACK_WORDS ELSE tokenized

InitAuto ==
    /\ words \in {Loaded(text) : text \in Texts}
    /\ currentIndex \in 0..(Len(words) - 1)
    /\ isPlaying = FALSE
    /\ isReady = TRUE
    /\ isFinished = FALSE
    /\ wpm \in Rates
    /\ timeoutRef = NoTimer
    /\ timers = {}
    /\ hasCleanup = FALSE
    /\ wakeLock = "null"
    /\ leaked = 0
    /\ pendingReq = 0
    /\ pendingRel = 0
    /\ supported \in BOOLEAN
    /\ textContent = <<>>
    /\ fileName = <<>>
    /\ extracting = {}
    /\ hasFailed = FALSE
    /\ selected = <<>>
    /\ last = [op |-> "init", text |-> <<>>, pos |-> currentIndex,
               playing |-> FALSE, finished |-> FALSE, ready |-> TRUE,
               lock |-> "null", armed |-> 0]
    /\ run = NoRun
    /\ PureUnused

PlayOnce ==
    /\ last.op = "init"
    /\ Play

NextAuto ==
    \/ PlayOnce
    \/ Tick
    \/ RequestGranted
    \/ RequestRejected
    \/ ReleaseResolved
    \/ ReleaseRejected

SpecAuto == InitAuto /\ [][NextAuto]_vars /\ WF_vars(Tick)

(***************************************************************************)
(* The tokenizer on its own: cleanAndTokenize applied to a text, and then  *)
(* to its own result joined by single spaces.                              *)
(***************************************************************************)
\* length of the longest text over RawChars that is tokenized
MaxRawLen == 4

\* a, b, space, tab, newline, SOH, NEL (U+0085) and the no-break space
RawChars == {97, 98, 32, 9, 10, 1, 133, 160}

RawTexts ==
    Texts \cup UNION { [1..n -> RawChars] : n \in 0..MaxRawLen }

\* Array.prototype.join with the separator sep
RECURSIVE join(_, _)
join(ts, sep) ==
    IF ts = <<>> THEN <<>>
    ELSE IF Len(ts) = 1 THEN ts[1]
    ELSE ts[1] \o sep \o join(Tail(ts), sep)

InitTokenizer ==
    /\ InitSession
    /\ ~supported
    /\ raw \in RawTexts
    /\ tokens = NoTokens
    /\ retokens = NoTokens
    /\ word = <<>>
    /\ pivotIdx = NoIndex
    /\ parts = NoParts

Tokenize ==
    /\ tokens = NoTokens
    /\ tokens' = cleanAndTokenize(raw)
    /\ UNCHANGED <<raw, retokens, word, pivotIdx, parts>>
    /\ UNCHANGED <<reader, timing, lock, app, last, run>>

Retokenize ==
    /\ tokens # NoTokens
    /\ retokens = NoTokens
    /\ retokens' = cleanAndTokenize(join(tokens, <<32>>))
    /\ UNCHANGED <<raw, tokens, word, pivotIdx, parts>>
    /\ UNCHANGED <<reader, timing, lock, app, last, run>>

NextTokenizer ==
    \/ Tokenize
    \/ Retokenize

SpecTokenizer == InitTokenizer /\ [][NextTokenizer]_vars

(***************************************************************************)
(* The pivot of a word: getPivotIndex (tokenizer.js) and the sections of   *)
(* the word that RSVPDisplay renders around it.                            *)
(***************************************************************************)
\* length of the longest word that is displayed
MaxWordLen == 15

\* getPivotIndex as it would be with < in place of <= at the length limits
getPivotIndexStrict(w) ==
    LET length == Len(w)
    IN IF length = 1 THEN 0
       ELSE IF length < 5 THEN 1
       ELSE IF length < 9 THEN 2
       ELSE IF length < 13 THEN 3
       ELSE 4

\* getPivotIndex as it would be without the case of a single character
getPivotIndexNoSingle(w) ==
    LET length == Len(w)
    IN IF length <= 5 THEN 1
       ELSE IF length <= 9 THEN 2
       ELSE IF length <= 13 THEN 3
       ELSE 4

getPivotIndex(w) ==
    LET length == Len(w)
    IN IF length = 1 THEN 0
       ELSE IF length <= 5 THEN 1
       ELSE IF length <= 9 THEN 2
       ELSE IF length <= 13 THEN 3
       ELSE 4

\* String.prototype.substring(from, to) and substring(from), on indices
\* counted from 0: both ends are clamped to 0..length and swapped when
\* from > to
substring(s, from, to) ==
    LET a == Max(0, Min(from, Len(s)))
        b == Max(0, Min(to, Len(s)))
    IN SubSeq(s, Min(a, b) + 1, Max(a, b))

substringFrom(s, from) == substring(s, from, Len(s))

\* the sections RSVPDisplay computes for its word prop (RSVPDisplay.jsx)
pivotSplit(w) ==
    IF w = <<>> THEN [left |-> <<>>, pivot |-> <<>>, right |-> <<>>]
    ELSE LET idx == getPivotIndex(w)
         IN [left |-> substring(w, 0, idx),
             pivot |-> substring(w, idx, idx + 1),
             right |-> substringFrom(w, idx + 1)]

\* the empty word, and for each length three words over a, b, c
DisplayWords ==
    { <<>> } \cup
    { [i \in 1..n |-> 97 + ((i + k) % 3)] : n \in 1..MaxWordLen, k \in 0..2 }

InitPivot ==
    /\ InitSession
    /\ ~supported
    /\ raw = <<>>
    /\ tokens = NoTokens
    /\ retokens = NoTokens
    /\ word \in DisplayWords
    /\ pivotIdx = NoIndex
    /\ parts = NoParts

\* getPivotIndex(word), which the display calls for a non-empty word
GetPivotIndex ==
    /\ word # <<>>
    /\ pivotIdx = NoIndex
    /\ pivotIdx' = getPivotIndex(word)
    /\ UNCHANGED <<raw, tokens, retokens, word, parts>>
    /\ UNCHANGED <<reader, timing, lock, app, last, run>>

\* the render of RSVPDisplay
Render ==
    /\ parts = NoParts
    /\ parts' = pivotSplit(word)
    /\ UNCHANGED <<raw, tokens, retokens, word, pivotIdx>>
    /\ UNCHANGED <<reader, timing, lock, app, last, run>>

NextPivot ==
    \/ GetPivotIndex
    \/ Render

SpecPivot == InitPivot /\ [][NextPivot]_vars

(***************************************************************************)
(* Properties                                                              *)
(***************************************************************************)
LastIndex == Len(words) - 1

\* the operations that perform the pause sequence
StopOps == {"pause", "restart", "back10", "load", "clear"}

\* the last operation was play(), directly or through the toggle
Played == last.op = "play" \/ (last.op = "toggle" /\ ~last.playing)

\* C1: in every reachable state the position is a valid index of the word
\* sequence: 0 <= currentIndex < words.length.
PositionInRange ==
    /\ currentIndex >= 0
    /\ currentIndex < Len(words)

\* a seek back from a position nearer than ten words to the start ends at 0
PositionInRangeWitness ==
    /\ last.op = "back10"
    /\ last.pos > 0
    /\ last.pos < BackStep
    /\ currentIndex = 0

\* C2: in every reachable state, the finished flag implies that the
\* position is the last index.
FinishedAtLastIndex ==
    isFinished => currentIndex = LastIndex

\* the longest sequence was played to its end
FinishedAtLastIndexWitness ==
    /\ isFinished
    /\ Len(words) = MaxWords
    /\ currentIndex = MaxWords - 1
    /\ last.op = "tick"

\* C3: the word sequence is never empty and every token has length >= 1.
WordsNeverEmpty ==
    /\ Len(words) >= 1
    /\ \A i \in 1..Len(words) : Len(words[i]) >= 1

\* text of control characters only was loaded and the fallback is held
WordsNeverEmptyWitness ==
    /\ last.op = "load"
    /\ last.text = <<1, 9, 10, 127>>
    /\ words = FALLBACK_WORDS

\* C4: at most one timer is armed in every reachable state.
AtMostOneTimer ==
    Cardinality(timers) <= 1

\* the rate was changed during playback and the tick was re-armed
AtMostOneTimerWitness ==
    /\ last.op = "setWpm"
    /\ last.playing
    /\ last.armed = 1
    /\ Cardinality(timers) = 1
    /\ \E t \in timers : t.id # 1

\* C5: while not playing, a step that is not play() never sets the finished
\* flag, and changes the position only when it is restart, seekBack, load
\* or clear itself: no tick armed earlier takes effect.
NoStaleTick ==
    [][(~isPlaying /\ last'.op \notin {"play", "toggle"})
         => /\ (isFinished' => isFinished)
            /\ ~isPlaying'
            /\ last'.op # "tick"
            /\ (last'.op \notin StopOps => currentIndex' = currentIndex)]_vars

\* playback past the first word, with a tick armed, was paused
NoStaleTickWitness ==
    /\ last.op = "pause"
    /\ last.playing
    /\ last.armed = 1
    /\ last.pos > 0
    /\ ~isPlaying
    /\ timers = {}

\* C6: while playing, a timer is armed.
PlayingHasTimer ==
    isPlaying => Cardinality(timers) >= 1

\* a tick advanced the position and playback goes on with a timer armed
PlayingHasTimerWitness ==
    /\ isPlaying
    /\ last.op = "tick"
    /\ currentIndex = last.pos + 1
    /\ Cardinality(timers) = 1

\* C7: a tick fires only while playing.  Before the last index it advances
\* the position by one, stays playing and arms the next tick; at the last
\* index it leaves the position there, sets finished, clears playing, arms
\* no tick and releases the sentinel wakeLock references.
TickStep ==
    last.op = "tick" =>
        /\ last.playing
        /\ last.armed = 1
        /\ IF last.pos + 1 < Len(words)
           THEN /\ currentIndex = last.pos + 1
                /\ isPlaying
                /\ isFinished = last.finished
                /\ Cardinality(timers) = 1
                /\ wakeLock = last.lock
           ELSE /\ currentIndex = LastIndex
                /\ currentIndex = last.pos
                /\ isFinished
                /\ ~isPlaying
                /\ timers = {}
                /\ wakeLock # "active"
                /\ last.lock # "null" => pendingRel >= 1

\* the tick at the last index of a sequence of several words, lock held
TickStepWitness ==
    /\ last.op = "tick"
    /\ last.pos = LastIndex
    /\ last.pos > 0
    /\ last.lock = "active"
    /\ isFinished
    /\ wakeLock = "released"

\* k ticks after play() left the position at p, with nothing else in
\* between, the position is min(p + k, n - 1); the run is finished exactly
\* from tick n - p on, and no tick fires after that
RunInv ==
    run.start >= 0 =>
        LET n == Len(words)
        IN /\ run.ticks <= n - run.start
           /\ currentIndex = Min(run.start + run.ticks, n - 1)
           /\ isFinished <=> run.ticks = n - run.start
           /\ isPlaying <=> run.ticks < n - run.start

\* C8: after play() on n words leaves the position at p, a run that is left
\* alone is at min(p + k, n - 1) after k ticks, finishes at exactly tick
\* n - p with the position at n - 1, and then stays finished at that
\* position: two ticks for two words from the start, one for a single word.
RunFinishes ==
    /\ []RunInv
    /\ [](run.start >= 0 => <>(isFinished /\ ~isPlaying /\ currentIndex = LastIndex))
    /\ [][isFinished => (isFinished' /\ currentIndex' = currentIndex)]_vars

\* a two-word sequence played from the start is finished after two ticks
RunFinishesWitness ==
    /\ Len(words) = 2
    /\ run.start = 0
    /\ run.ticks = 2
    /\ isFinished
    /\ currentIndex = 1

\* C9: play() at the last index, finished or not, ends at position 0 with
\* finished cleared and playing set; at any other position it leaves the
\* position and the finished flag alone and sets playing.
PlayStep ==
    Played =>
        /\ isPlaying
        /\ IF last.pos = LastIndex
           THEN currentIndex = 0 /\ ~isFinished
           ELSE currentIndex = last.pos /\ isFinished = last.finished

\* play() after a pause on the last word of several, not finished
PlayStepWitness ==
    /\ last.op = "play"
    /\ last.pos = LastIndex
    /\ last.pos > 0
    /\ ~last.finished
    /\ currentIndex = 0
    /\ isPlaying

\* "hello", "world"
HelloWorldWords ==
    << <<104, 101, 108, 108, 111>>, <<119, 111, 114, 108, 100>> >>

\* C10: load(text) ends with the tokens of the text, or the fallback when
\* there are none, at position 0, not finished, not playing, ready, and
\* with no timer armed.
LoadStep ==
    last.op = "load" =>
        /\ words = Loaded(last.text)
        /\ last.text = HelloWorld => words = HelloWorldWords
        /\ last.text \in {Null, <<>>} => words = FALLBACK_WORDS
        /\ currentIndex = 0
        /\ ~isFinished
        /\ ~isPlaying
        /\ isReady
        /\ timers = {}

\* text was loaded during playback, past the first word
LoadStepWitness ==
    /\ last.op = "load"
    /\ last.playing
    /\ last.armed = 1
    /\ last.pos > 0
    /\ last.text = HelloWorld
    /\ words = HelloWorldWords
    /\ ~isPlaying


\* "ready", "to", "warp"
ReadyToWarp ==
    << <<114, 101, 97, 100, 121>>, <<116, 111>>, <<119, 97, 114, 112>> >>

\* texts without a word: absent, empty, whitespace only, control
\* characters only, and mixtures of the two
WordlessTexts ==
    { Null, <<>>, <<32, 160, 32>>, <<1, 9, 10, 127>>, <<32, 9>> }

\* C11: after a load of a text without a word the word sequence is exactly
\* "ready", "to", "warp" and the ready flag is set.
EmptyLoadFallback ==
    (last.op = "load" /\ last.text \in WordlessTexts) =>
        /\ words = ReadyToWarp
        /\ isReady
        /\ currentIndex = 0

\* whitespace-only text was loaded into a session that was not ready
EmptyLoadFallbackWitness ==
    /\ last.op = "load"
    /\ last.text = <<32, 160, 32>>
    /\ ~last.ready
    /\ isReady
    /\ words = ReadyToWarp


\* C12: clear() ends with the placeholder words of the initial state, at
\* position 0, not ready, not playing, not finished, with no timer armed
\* and with an empty file name.
ClearStep ==
    last.op = "clear" =>
        /\ words = DEFAULT_WORDS
        /\ Len(words) = 7
        /\ currentIndex = 0
        /\ ~isReady
        /\ ~isPlaying
        /\ ~isFinished
        /\ timers = {}
        /\ fileName = <<>>

\* a session playing a loaded file, past its first word, was cleared
ClearStepWitness ==
    /\ last.op = "clear"
    /\ last.text # <<>>
    /\ last.playing
    /\ last.armed = 1
    /\ last.pos > 0
    /\ fileName = <<>>
    /\ words = DEFAULT_WORDS


\* C13: seekBack ends at position max(0, position - 10), never below 0,
\* with finished cleared, not playing and no timer armed.
SeekBackStep ==
    last.op = "back10" =>
        /\ currentIndex = (IF last.pos > 10 THEN last.pos - 10 ELSE 0)
        /\ currentIndex >= 0
        /\ ~isFinished
        /\ ~isPlaying
        /\ timers = {}

\* a seek back during playback from the twelfth word, ending at the second
SeekBackStepWitness ==
    /\ last.op = "back10"
    /\ last.pos = 11
    /\ last.playing
    /\ last.armed = 1
    /\ currentIndex = 1
    /\ ~isPlaying

\* C14: restart() ends at position 0 with finished cleared, not playing and
\* no timer armed, and leaves the words, the rate and the ready flag as
\* they were.
RestartStep ==
    [][last'.op = "restart"
         => /\ currentIndex' = 0
            /\ ~isFinished'
            /\ ~isPlaying'
            /\ timers' = {}
            /\ UNCHANGED <<words, wpm, isReady>>]_vars

\* playback past the first word was restarted
RestartStepWitness ==
    /\ last.op = "restart"
    /\ last.playing
    /\ last.armed = 1
    /\ last.pos > 0
    /\ currentIndex = 0
    /\ ~isPlaying
    /\ timers = {}


\* C15: pause() in an idle session (nothing loaded, not playing) leaves it
\* idle and changes neither the position, the words, the rate, the finished
\* flag nor the file name, and arms no timer.
IdlePauseNoOp ==
    [][(last'.op = "pause" /\ ~isReady /\ ~isPlaying)
         => /\ ~isReady'
            /\ ~isPlaying'
            /\ UNCHANGED <<currentIndex, words, wpm, isFinished, fileName>>
            /\ timers' = {}]_vars

\* pause() was called in a session that was idle, at the default rate
IdlePauseNoOpWitness ==
    /\ last.op = "pause"
    /\ ~last.ready
    /\ ~last.playing
    /\ ~isReady
    /\ ~isPlaying
    /\ words = DEFAULT_WORDS


\* C16: when playback is stopped and every wake-lock request and release
\* has settled, no wake lock is held.
NoLockHeldWhenStopped ==
    (~isPlaying /\ pendingReq = 0 /\ pendingRel = 0)
        => (wakeLock # "active" /\ leaked = 0)

\* C17: a rate change while not playing sets the rate and changes neither
\* the position, the words nor the playing, ready and finished flags, and
\* no timer is armed after it.
IdleRateChange ==
    [][(last'.op = "setWpm" /\ ~isPlaying)
         => /\ wpm' = last'.text[1]
            /\ UNCHANGED <<currentIndex, words, isPlaying, isReady, isFinished>>
            /\ timers' = {}]_vars

\* the rate of a finished session was changed from 300 to 600
IdleRateChangeWitness ==
    /\ last.op = "setWpm"
    /\ last.text = <<600>>
    /\ last.finished
    /\ ~last.playing
    /\ isFinished
    /\ wpm = 600
    /\ timers = {}


\* C18: every armed timer has the delay 60000 / wpm of the current rate
\* (200 at 300 wpm, 100 at 600 wpm), and a rate change during playback
\* keeps the position and keeps playing with one timer armed.
TimerDelayMatchesRate ==
    /\ \A t \in timers :
        /\ t.delay * wpm = 60000
        /\ wpm = 300 => t.delay = 200
        /\ wpm = 600 => t.delay = 100
    /\ (last.op = "setWpm" /\ last.playing) =>
        /\ wpm = last.text[1]
        /\ isPlaying
        /\ currentIndex = last.pos
        /\ Cardinality(timers) = 1

\* the rate was set to 600 during playback and the armed tick waits 100 ms
TimerDelayMatchesRateWitness ==
    /\ last.op = "setWpm"
    /\ last.text = <<600>>
    /\ last.playing
    /\ last.pos > 0
    /\ isPlaying
    /\ \E t \in timers : t.delay = 100


\* C19: a failed text extraction changes neither the words, the position,
\* the playing, ready and finished flags, the rate, the file name, the
\* text area nor the armed timer; a file extracted afterwards is loaded as
\* usual.
ExtractionFailureKeepsState ==
    /\ [][last'.op = "fileFailed"
            => UNCHANGED <<words, currentIndex, isPlaying, isReady, isFinished,
                           wpm, fileName, textContent, timers>>]_vars
    /\ [](last.op = "fileLoaded" =>
            /\ words = Loaded(last.text)
            /\ textContent = last.text
            /\ fileName # <<>>
            /\ isReady)

\* an extraction failed during playback of a loaded file
ExtractionFailureKeepsStateWitness ==
    /\ last.op = "fileFailed"
    /\ isPlaying
    /\ currentIndex > 0
    /\ fileName # <<>>
    /\ textContent # <<>>


\* C20: a rejected wake-lock request or release changes no playback state
\* and issues no new request or release; play() ends playing with one
\* timer armed, without a request when the API is absent, and pause() ends
\* not playing with no timer armed, whatever the lock does.
WakeLockFailureHarmless ==
    [][/\ last'.op \in {"rejected", "releaseFailed"}
            => /\ UNCHANGED <<reader, timing>>
               /\ pendingReq' <= pendingReq
               /\ pendingRel' <= pendingRel
       /\ last'.op = "play"
            => /\ isPlaying'
               /\ Cardinality(timers') = 1
               /\ pendingReq' = IF supported THEN pendingReq + 1 ELSE pendingReq
       /\ last'.op = "pause"
            => /\ ~isPlaying'
               /\ timers' = {}]_vars

\* the request was rejected during playback, which goes on
WakeLockFailureHarmlessWitness ==
    /\ last.op = "rejected"
    /\ last.playing
    /\ last.armed = 1
    /\ isPlaying
    /\ Cardinality(timers) = 1
    /\ wakeLock = "null"
    /\ pendingReq = 0

(***************************************************************************)
(* Properties of the tokenizer and of the display                          *)
(***************************************************************************)
\* the letters of RawChars
Letters == {97, 98}

IsWord(s) == s # <<>> /\ \A i \in 1..Len(s) : s[i] \in Letters

\* C21: two words separated by one tab or one newline, with no space, are
\* returned as two separate tokens.
TabNewlineSplits ==
    \A i \in 1..Len(raw) :
        ( /\ tokens # NoTokens
          /\ raw # Null
          /\ raw[i] \in {9, 10}
          /\ IsWord(SubSeq(raw, 1, i - 1))
          /\ IsWord(SubSeq(raw, i + 1, Len(raw))) )
            => tokens = << SubSeq(raw, 1, i - 1), SubSeq(raw, i + 1, Len(raw)) >>

\* C22: tokenize is idempotent on its output: tokenizing the result joined
\* by single spaces gives the same sequence of tokens.
TokenizeIdempotent ==
    retokens # NoTokens => retokens = tokens

\* a text with several words that is not its own joined result has been
\* tokenized twice
TokenizeIdempotentWitness ==
    /\ retokens # NoTokens
    /\ raw # Null
    /\ Len(tokens) >= 2
    /\ raw # join(tokens, <<32>>)
    /\ \E i \in 1..Len(raw) : IsControl(raw[i])

\* the positions where a maximal run of characters other than whitespace
\* starts in s, and the position where the run that starts at i ends
RunStarts(s) ==
    {i \in 1..Len(s) : ~IsSpace(s[i]) /\ (i = 1 \/ IsSpace(s[i - 1]))}

RunEnd(s, i) ==
    CHOOSE j \in i..Len(s) :
        /\ \A k \in i..j : ~IsSpace(s[k])
        /\ j = Len(s) \/ IsSpace(s[j + 1])

\* raw without its control characters; the absent value has none
Cleaned(text) ==
    IF text = Null THEN <<>>
    ELSE SelectSeq(text, LAMBDA c : ~(c \in 0..31 \/ c \in 127..159))

\* C23: the tokens are the maximal runs of non-whitespace characters of the
\* input without its control characters, in input order; each token is
\* non-empty and holds no whitespace and no control character in 0x00-0x1F
\* or 0x7F-0x9F; "  hello   world  " gives ["hello", "world"].
TokensWellFormed ==
    tokens # NoTokens =>
        LET s == Cleaned(raw)
        IN /\ Len(tokens) = Cardinality(RunStarts(s))
           /\ \A i \in RunStarts(s) :
                 tokens[1 + Cardinality({j \in RunStarts(s) : j < i})]
                     = SubSeq(s, i, RunEnd(s, i))
           /\ \A k \in 1..Len(tokens) :
                 /\ Len(tokens[k]) > 0
                 /\ \A i \in 1..Len(tokens[k]) :
                       /\ ~IsSpace(tokens[k][i])
                       /\ ~(tokens[k][i] \in 0..31 \/ tokens[k][i] \in 127..159)
           /\ raw = HelloWorld => tokens = HelloWorldWords

\* "  hello   world  ", with its leading, repeated and trailing spaces, has
\* been tokenized
TokensWellFormedWitness ==
    /\ raw = HelloWorld
    /\ tokens = HelloWorldWords

\* C24: for a non-empty word the pivot index depends only on its length L:
\* 0 for L = 1, 1 for 2..5, 2 for 6..9, 3 for 10..13 and 4 from 14 on.
PivotIndexTable ==
    pivotIdx # NoIndex =>
        LET L == Len(word)
        IN /\ L = 1 => pivotIdx = 0
           /\ (2 <= L /\ L <= 5) => pivotIdx = 1
           /\ (6 <= L /\ L <= 9) => pivotIdx = 2
           /\ (10 <= L /\ L <= 13) => pivotIdx = 3
           /\ L >= 14 => pivotIdx = 4

\* the index of a word of 14 characters or more has been computed
PivotIndexTableWitness ==
    /\ Len(word) >= 14
    /\ pivotIdx = 4

\* C25: for a non-empty word the pivot is exactly one character, at an
\* index below the length, and left, pivot and right put together are the
\* word; for the empty word the three sections are empty.
PivotSplitWhole ==
    parts # NoParts =>
        IF word # <<>>
        THEN /\ Len(parts.pivot) = 1
             /\ getPivotIndex(word) < Len(word)
             /\ Len(parts.left) = getPivotIndex(word)
             /\ parts.left \o parts.pivot \o parts.right = word
        ELSE parts = [left |-> <<>>, pivot |-> <<>>, right |-> <<>>]

\* a word of a single character has been rendered: it is the pivot
PivotSplitWholeWitness ==
    /\ Len(word) = 1
    /\ parts = [left |-> <<>>, pivot |-> word, right |-> <<>>]

(***************************************************************************)
(* Properties of the session: what is held while not ready, and what each  *)
(* operation leaves alone                                                  *)
(***************************************************************************)
\* C26 as stated: whenever the session is not ready, the words held are the
\* initial placeholder sequence.
IdleHoldsPlaceholder ==
    ~isReady => words = DEFAULT_WORDS

\* C26: the session starts not ready with the placeholder sequence, and a
\* state that is not ready and holds other words is entered only by an edit
\* of the raw text, which keeps the words that were loaded, and is kept
\* only by steps that leave those words in place: while not ready the
\* words are the placeholder unless the text was edited after a load.
IdleHoldsPlaceholderUnlessEdited ==
    /\ ~isReady => words = DEFAULT_WORDS
    /\ [][(~isReady' /\ words' # DEFAULT_WORDS)
            => /\ words' = words
               /\ last'.op = "edit" \/ ~isReady]_vars

\* a text was loaded and the text area was then edited: the session is not
\* ready and still holds the loaded words
IdleHoldsPlaceholderUnlessEditedWitness ==
    /\ ~isReady
    /\ words = HelloWorldWords
    /\ last.op = "edit"
    /\ last.ready

\* C27: an edit of the raw text only marks the session not ready: the
\* words (nothing is tokenized), the position, the playing and finished
\* flags, the rate and the armed tick are unchanged, also during playback.
EditOnlyMarksNotReady ==
    [][last'.op = "edit"
         => /\ ~isReady'
            /\ UNCHANGED <<words, currentIndex, isPlaying, isFinished, wpm>>
            /\ UNCHANGED <<timeoutRef, timers>>]_vars

\* the text area was edited during playback of a loaded text: the session
\* is not ready, still playing, with its tick armed
EditOnlyMarksNotReadyWitness ==
    /\ last.op = "edit"
    /\ last.text = <<99, 32, 98>>
    /\ last.ready /\ ~isReady
    /\ last.playing /\ isPlaying
    /\ words = HelloWorldWords
    /\ timers # {}

\* the operations that are neither load nor clear
KeepOps ==
    {"play", "pause", "toggle", "restart", "back10", "setWpm", "edit", "tick",
     "granted", "rejected", "released", "releaseFailed"}

\* C28: the word sequence is replaced only by load, and reset to the
\* placeholder by clear: play, pause, toggle, restart, seekBack, setRate,
\* the marking of a text edit and the ticks leave it unchanged.
WordsReplacedOnlyByLoad ==
    [][/\ last'.op \in KeepOps => words' = words
       /\ words' # words => last'.op \in {"load", "clear"}
       /\ last'.op = "clear" => words' = DEFAULT_WORDS]_vars

\* restart ran in the middle of a loaded text, which is still held
WordsReplacedOnlyByLoadWitness ==
    /\ last.op = "restart"
    /\ last.pos = 1
    /\ currentIndex = 0
    /\ words = HelloWorldWords

\* C29: the playing flag and the finished flag are never both true.
NotPlayingAndFinished ==
    ~(isPlaying /\ isFinished)

\* play() was called in the Finished state: the session plays from the
\* start and is no longer finished
NotPlayingAndFinishedWitness ==
    /\ last.op \in {"play", "toggle"}
    /\ last.finished
    /\ isPlaying
    /\ ~isFinished
    /\ currentIndex = 0

\* the text area, the file name and the words are those of one file
FileStateConsistent ==
    last.op = "fileLoaded" =>
        \E file \in Files :
            /\ fileName = toLowerCase(file.name)
            /\ textContent = file.text
            /\ words = Loaded(file.text)

\* C30: when files were selected one after the other and every extraction
\* succeeded, the session ends holding the words and the name of the file
\* selected last, whatever the order in which the extractions completed,
\* and words and file name belong to the same file.
LastSelectedFileWins ==
    /\ FileStateConsistent
    /\ (last.op = "fileLoaded" /\ extracting = {} /\ ~hasFailed)
          => \E file \in Files :
                /\ file.name = selected
                /\ fileName = toLowerCase(file.name)
                /\ words = Loaded(file.text)

====
